---- MODULE Spec2Model ----
(***************************************************************************)
(* Model of the client-side authentication core of tool-client:            *)
(*   - the Auth Controller (src/src/hooks/useAuth.ts, useAuthProvider),    *)
(*   - the Auth Operations (src/src/services/api/auth.ts, authApi),        *)
(*   - the HTTP boundary   (src/src/services/api/client.ts, ApiClient),    *)
(*   - localStorage (keys authToken, refreshToken) and window.location,    *)
(*   - the countdown timer (src/src/App.tsx:64-142, useCountdown).         *)
(*                                                                         *)
(* Three specifications share the module: Spec (the Auth Controller and    *)
(* the requests it sends), SpecNormalize (the response interceptor's error *)
(* normalization as a function of the axios error) and SpecCountdown (one  *)
(* useCountdown instance).  Each leaves the others' variables at rest.     *)
(*                                                                         *)
(* Execution is single threaded.  An async function runs synchronously up  *)
(* to its await (the ...Start actions) and, when the remote call settles,  *)
(* runs its continuation to the end in one piece (the ...Resume actions).  *)
(* React's functional state updaters are applied in the order in which     *)
(* they are queued, so every setState((prev) => ...) is applied to the     *)
(* Session in program order.                                               *)
(*                                                                         *)
(* JavaScript null / undefined are both written Null; a value is falsy     *)
(* when it is Null or the empty string.                                    *)
(***************************************************************************)
EXTENDS Integers, FiniteSets, Sequences, TLC

Null == "null"

\* Bound on the number of login / signup / logout calls started in a run.
MaxCalls == 2

\* ------------------------------------------------------------------------
\* Data domains (remote inputs)
\* ------------------------------------------------------------------------
Users == {"u1"}
Tokens == {"t1", "t2"}
RefreshTokens == {"r1"}
BodyMessages == {"Invalid credentials"}

\* HTTP statuses the server answers with; NoStatus is a transport failure
\* (error.response undefined).
StatusOK == 200
StatusUnauthorized == 401
StatusServerError == 500
NoStatus == 0

\* The status the response interceptor compares with (client.ts:46).
InterceptedStatus == 40

LoginPath == "/auth/login"
DashboardPath == "/dashboard"
AppPath == "/"

\* JavaScript truthiness of a string-or-null value.
Truthy(x) == x # Null /\ x # ""

\* JavaScript a || b on string-or-null values.
Or(a, b) == IF Truthy(a) THEN a ELSE b

\* axios' error.message for a rejected request.
AxiosMessage(status) ==
  CASE status = StatusUnauthorized -> "Request failed with status code 401"
    [] status = StatusServerError -> "Request failed with status code 500"
    [] OTHER -> "Network Error"

\* What the network hands to the response interceptor for one request:
\*   status   the HTTP status, NoStatus when there is no response;
\*   success, message, user, token, refreshToken: the fields of the body
\*            (AuthResponse; for GET /auth/me the body is the user);
\*   errmsg   error.message of the axios error on a rejected request.
\* Bodies have the declared types (AuthResponse, User); the optional fields
\* of an AuthResponse may be missing or empty.
Outcome(status, success, message, user, token, refreshToken, errmsg) ==
  [status |-> status, success |-> success,
   message |-> message, user |-> user, token |-> token,
   refreshToken |-> refreshToken, errmsg |-> errmsg]

\* Placeholder for an operation that handled no response.
NoOutcome == Outcome(NoStatus, FALSE, Null, Null, Null, Null, Null)

\* Rejected requests: a non-2xx response (with or without a message in its
\* body) or a transport error (with or without a message).
ErrorOutcomes ==
  { Outcome(s, FALSE, m, Null, Null, Null, AxiosMessage(s)) :
      s \in {StatusUnauthorized, StatusServerError},
      m \in BodyMessages \cup {Null} }
  \cup
  { Outcome(NoStatus, FALSE, Null, Null, Null, Null, e) :
      e \in {"Network Error", ""} }

\* 2xx response whose body is not read.
OkOutcome == Outcome(StatusOK, TRUE, Null, Null, Null, Null, Null)

\* POST /auth/login: an AuthResponse.  One that reports success with a user
\* and a token comes with or without a refresh token (login does not read its
\* message); one that reports success with the user or the token missing or
\* empty comes with or without a message (login does not read its refresh
\* token); a declared failure carries no data or a user and a token.
LoginOutcomes ==
  { Outcome(StatusOK, TRUE, "", u, t, r, Null) :
      u \in Users, t \in Tokens, r \in RefreshTokens \cup {Null} }
  \cup
  { Outcome(StatusOK, TRUE, m, d[1], d[2], Null, Null) :
      m \in BodyMessages \cup {""},
      d \in ((Users \cup {Null}) \X (Tokens \cup {Null, ""}))
               \ (Users \X Tokens) }
  \cup
  { Outcome(StatusOK, FALSE, m, d[1], d[2], Null, Null) :
      m \in BodyMessages \cup {""},
      d \in {<<Null, Null>>} \cup (Users \X Tokens) }
  \cup ErrorOutcomes

\* POST /auth/signup: an AuthResponse whose data is not read.
SignupOutcomes ==
  { Outcome(StatusOK, s, m, Null, Null, Null, Null) :
      s \in BOOLEAN, m \in BodyMessages \cup {""} }
  \cup ErrorOutcomes

\* POST /auth/logout: the body is not read.
LogoutOutcomes ==
  {OkOutcome} \cup ErrorOutcomes

\* GET /auth/me: the body is the user record.
MeOutcomes ==
  { Outcome(StatusOK, TRUE, Null, u, Null, Null, Null) : u \in Users }
  \cup ErrorOutcomes

\* ------------------------------------------------------------------------
\* State
\* ------------------------------------------------------------------------
VARIABLES
  state,      \* the Session (AuthState) held by useAuthProvider
  storage,    \* localStorage: [authToken, refreshToken]
  href,       \* window.location.href (path)
  initPc,     \* position of initAuth: "start", "awaiting", "done"
  initToken,  \* initAuth's local const token
  inflight,   \* number of login / signup / logout calls awaiting the network
  started,    \* number of login / signup / logout calls started so far
  meCalls,    \* number of GET /auth/me requests issued
  last,       \* the most recent completed operation: what it was, the remote
              \* outcome it handled, what it returned, the Session and
              \* storage right before and right after its final step, and
              \* for a login the issue number of the call
  sentAuth,   \* the Authorization header of the most recent request sent
  view,       \* what ProtectedRoute renders for the current Session
  pending,    \* the login calls awaiting the network, by issue number
  normPc,     \* SpecNormalize: "in" before the interceptor ran, "out" after
  errIn,      \* SpecNormalize: the axios error given to the interceptor
  errOut,     \* SpecNormalize: the ApiError it rejects with
  initialTime,     \* SpecCountdown: the initialTime prop
  timeLeft,        \* SpecCountdown: useState(initialTime)
  isRunning,       \* SpecCountdown: useState(false)
  activeIntervals, \* SpecCountdown: setInterval timers not yet cleared
  completions,     \* SpecCountdown: number of onComplete() calls
  ticks,           \* SpecCountdown: seconds elapsed with a timer active
  resets,          \* SpecCountdown: number of reset() calls
  calls,           \* SpecCountdown: number of start/stop/reset calls
  lastEvent,       \* SpecCountdown: the most recent event
  lastArg,         \* SpecCountdown: the argument of that event, if a reset
  screen,          \* SpecResend: the page that uses the countdown
  email,           \* SpecResend: whether location.state carries an email
  isResending      \* SpecResend: the page's isResending flag

authVars ==
  <<state, storage, href, initPc, initToken, inflight, started, meCalls, last,
    sentAuth, view, pending>>

normVars == <<normPc, errIn, errOut>>

cdVars ==
  <<initialTime, timeLeft, isRunning, activeIntervals, completions, ticks,
    resets, calls, lastEvent, lastArg, screen, email, isResending>>

vars == <<authVars, normVars, cdVars>>

\* useState initial value (useAuth.ts:35-41).
InitialState ==
  [user |-> Null, token |-> Null, isAuthenticated |-> FALSE,
   isLoading |-> TRUE, error |-> Null]

EmptyStorage == [authToken |-> Null, refreshToken |-> Null]

\* ------------------------------------------------------------------------
\* Auth Controller helpers (useAuth.ts)
\* ------------------------------------------------------------------------
SetLoadingIgnored(st, isLoading) == st

\* setLoading: setState(prev => ({ ...prev, isLoading }))
SetLoading(st, isLoading) == [st EXCEPT !.isLoading = isLoading]

SetError(st, error) == [st EXCEPT !.error = error]

\* isAuthenticated: !!user && !!token
IsAuthenticated(user, token) == Truthy(user) /\ Truthy(token)

SetAuthStateStale(st, user, token) ==
  [st EXCEPT !.user = user, !.token = token,
             !.isLoading = FALSE, !.error = Null]

\* setAuth, the setState part.
SetAuthState(st, user, token) ==
  [st EXCEPT !.user = user, !.token = token,
             !.isAuthenticated = IsAuthenticated(user, token),
             !.isLoading = FALSE, !.error = Null]

SetAuthStorageNoPersist(ls, token) ==
  IF Truthy(token) THEN ls ELSE EmptyStorage

SetAuthStorageKeepRefresh(ls, token) ==
  IF Truthy(token) THEN [ls EXCEPT !.authToken = token]
  ELSE [ls EXCEPT !.authToken = Null]

\* setAuth, the localStorage part.
SetAuthStorage(ls, token) ==
  IF Truthy(token) THEN [ls EXCEPT !.authToken = token]
  ELSE [ls EXCEPT !.authToken = Null, !.refreshToken = Null]

\* ------------------------------------------------------------------------
\* HTTP boundary (client.ts)
\* ------------------------------------------------------------------------
NoHeader == Null

RequestInterceptorNoAuth(ls) == NoHeader

\* Request interceptor: the Authorization header of an outgoing request.
RequestInterceptor(ls) ==
  IF Truthy(ls.authToken) THEN "Bearer " \o ls.authToken ELSE NoHeader

\* axios rejects a request without a response or with a non-2xx status.
Rejected(out) == out.status # StatusOK

\* The axios error of a rejected request: error.response (absent on a
\* transport failure), its status, its data.message and data.code, and
\* error.message.
AxiosErrorOf(hasResponse, status, dataMessage, dataCode, message) ==
  [hasResponse |-> hasResponse, status |-> status,
   dataMessage |-> dataMessage, dataCode |-> dataCode, message |-> message]

NormalizeErrorTransportFirst(err) ==
  [message |-> Or(err.message,
                  Or(IF err.hasResponse THEN err.dataMessage ELSE Null,
                     "An error occurred")),
   code |-> IF err.hasResponse THEN err.dataCode ELSE Null,
   statusCode |-> IF err.hasResponse THEN err.status ELSE NoStatus]

\* Response interceptor, error handler: the normalized ApiError
\*   message:    error.response?.data?.message || error.message || "An error occurred"
\*   code:       error.response?.data?.code
\*   statusCode: error.response?.status   (NoStatus stands for undefined)
NormalizeError(err) ==
  [message |-> Or(IF err.hasResponse THEN err.dataMessage ELSE Null,
                  Or(err.message, "An error occurred")),
   code |-> IF err.hasResponse THEN err.dataCode ELSE Null,
   statusCode |-> IF err.hasResponse THEN err.status ELSE NoStatus]

\* The axios error of a rejected remote outcome.
AxiosError(out) ==
  AxiosErrorOf(out.status # NoStatus, out.status, out.message, Null, out.errmsg)

\* The ApiError a caller catches for a rejected remote outcome.
ApiError(out) == NormalizeError(AxiosError(out))

\* Response interceptor, error handler: the branch on the status.
InterceptorClears(out) == Rejected(out) /\ out.status = InterceptedStatus

InterceptStorage(ls, out) ==
  IF InterceptorClears(out) THEN EmptyStorage ELSE ls

InterceptHref(h, out) ==
  IF InterceptorClears(out) THEN LoginPath ELSE h

ThrowsUnlessUnauthorized(out) ==
  Rejected(out) /\ out.status # StatusUnauthorized

\* apiClient.post / get throw the ApiError of a rejected request.
Throws(out) == Rejected(out)

ThrownMessage(out) == ApiError(out).message

\* ------------------------------------------------------------------------
\* login (useAuth.ts:74-117)
\* ------------------------------------------------------------------------
\* try { setLoading(true); setError(null); ... await authApi.login(...)
LoginBegin(st) == SetError(SetLoading(st, TRUE), Null)

LoginSucceededLoose(out) == out.success

\* response.success && response.data?.user && response.data?.token
LoginSucceeded(out) == out.success /\ Truthy(out.user) /\ Truthy(out.token)

LoginElseMessageFixed(out) == "Login failed"

\* response.message || "Login failed"
LoginElseMessage(out) == Or(out.message, "Login failed")

\* error.message || "Login failed"
LoginCatchMessage(out) == Or(ThrownMessage(out), "Login failed")

LoginThenStateFirstWins(st, out) ==
  IF st.isAuthenticated THEN [st EXCEPT !.isLoading = FALSE, !.error = Null]
  ELSE SetAuthState(st, out.user, out.token)

\* the if branch: setAuth(user, token)
LoginThenState(st, out) == SetAuthState(st, out.user, out.token)

LoginThenStorageRefreshOnly(ls, out) ==
  IF Truthy(out.refreshToken)
    THEN [ls EXCEPT !.refreshToken = out.refreshToken]
    ELSE SetAuthStorage(ls, out.token)

\* the if branch: setAuth's storage write, then the refresh token.
LoginThenStorage(ls, out) ==
  LET ls1 == SetAuthStorage(ls, out.token)
  IN IF Truthy(out.refreshToken)
       THEN [ls1 EXCEPT !.refreshToken = out.refreshToken]
       ELSE ls1

LoginFailStateClearing(st, msg) ==
  [SetError(st, msg) EXCEPT !.user = Null, !.token = Null,
                            !.isAuthenticated = FALSE]

\* the else branch and the catch clause: setError(message)
LoginFailState(st, msg) == SetError(st, msg)

LoginFinallyKeep(st) == st

\* finally { setLoading(false) }
LoginFinally(st) == SetLoading(st, FALSE)

\* The continuation of login after the await: the Session, the storage, the
\* location, the returned boolean and whether an exception leaves login.
LoginResult(st, ls, h, out) ==
  LET ls0 == InterceptStorage(ls, out)
      h0 == InterceptHref(h, out)
  IN IF Throws(out)
       THEN [state |-> LoginFinally(LoginFailState(st, LoginCatchMessage(out))),
             storage |-> ls0, href |-> h0, ret |-> FALSE, threw |-> FALSE]
     ELSE IF LoginSucceeded(out)
       THEN [state |-> LoginFinally(LoginThenState(st, out)),
             storage |-> LoginThenStorage(ls0, out),
             href |-> h0, ret |-> TRUE, threw |-> FALSE]
     ELSE [state |-> LoginFinally(LoginFailState(st, LoginElseMessage(out))),
           storage |-> ls0, href |-> h0, ret |-> FALSE, threw |-> FALSE]

\* ------------------------------------------------------------------------
\* signup (useAuth.ts:119-156)
\* ------------------------------------------------------------------------
SignupBegin(st) == SetError(SetLoading(st, TRUE), Null)

\* response.message || "Signup failed"
SignupElseMessage(out) == Or(out.message, "Signup failed")

\* error.message || "Signup failed"
SignupCatchMessage(out) == Or(ThrownMessage(out), "Signup failed")

SignupFinallyKeep(st) == st

SignupFinallyReset(st) == SetAuthState(st, Null, Null)

\* finally { setLoading(false) }
SignupFinally(st) == SetLoading(st, FALSE)

SignupResult(st, ls, h, out) ==
  LET ls0 == InterceptStorage(ls, out)
      h0 == InterceptHref(h, out)
  IN IF Throws(out)
       THEN [state |-> SignupFinally(SetError(st, SignupCatchMessage(out))),
             storage |-> ls0, href |-> h0, ret |-> FALSE, threw |-> FALSE]
     ELSE IF out.success
       THEN [state |-> SignupFinally(st),
             storage |-> ls0, href |-> h0, ret |-> TRUE, threw |-> FALSE]
     ELSE [state |-> SignupFinally(SetError(st, SignupElseMessage(out))),
           storage |-> ls0, href |-> h0, ret |-> FALSE, threw |-> FALSE]

\* ------------------------------------------------------------------------
\* logout (useAuth.ts:158-170, auth.ts:41-45)
\* ------------------------------------------------------------------------
\* authApi.logout after its await: the two removeItem calls run only when
\* the POST did not reject.
AuthApiLogoutStorage(ls, out) ==
  IF Rejected(out) THEN ls ELSE EmptyStorage

LogoutResultKeepsStorage(st, ls, h, out) ==
  [state |-> SetAuthState(st, Null, Null),
   storage |-> AuthApiLogoutStorage(InterceptStorage(ls, out), out),
   href |-> InterceptHref(h, out), ret |-> FALSE, threw |-> FALSE]

\* logout: the rejection is caught and logged; finally setAuth(null, null).
LogoutResult(st, ls, h, out) ==
  [state |-> SetAuthState(st, Null, Null),
   storage |-> SetAuthStorage(AuthApiLogoutStorage(InterceptStorage(ls, out), out), Null),
   href |-> InterceptHref(h, out), ret |-> FALSE, threw |-> FALSE]

\* ------------------------------------------------------------------------
\* clearError (useAuth.ts:52-54)
\* ------------------------------------------------------------------------
ClearErrorStateWipe(st) == [InitialState EXCEPT !.isLoading = st.isLoading]

\* setError(null)
ClearErrorState(st) == SetError(st, Null)

\* ------------------------------------------------------------------------
\* initAuth (useAuth.ts:173-194)
\* ------------------------------------------------------------------------
InitNoTokenKeep(st) == st

\* if (!token) { setLoading(false); return; }
InitNoToken(st) == SetLoading(st, FALSE)

InitCatchStateKeep(st) == st

\* catch: setAuth(null, null), the setState part.
InitCatchState(st) == SetAuthState(st, Null, Null)

InitThenStateNoToken(st, user, tok) == SetAuthState(st, user, Null)

\* try: setAuth(user, token), the setState part.
InitThenState(st, user, tok) == SetAuthState(st, user, tok)

\* after the await: setAuth(user, token) or, in the catch, setAuth(null, null);
\* finally setLoading(false).
InitResult(st, ls, h, tok, out) ==
  LET ls0 == InterceptStorage(ls, out)
      h0 == InterceptHref(h, out)
  IN IF Rejected(out)
       THEN [state |-> SetLoading(InitCatchState(st), FALSE),
             storage |-> SetAuthStorage(ls0, Null), href |-> h0,
             ret |-> FALSE, threw |-> FALSE]
     ELSE [state |-> SetLoading(InitThenState(st, out.user, tok), FALSE),
           storage |-> SetAuthStorage(ls0, tok), href |-> h0,
           ret |-> FALSE, threw |-> FALSE]

\* ------------------------------------------------------------------------
\* Route Guard (ProtectedRoute.tsx)
\* ------------------------------------------------------------------------
\* the loading spinner
LoadingView == [kind |-> "loading", to |-> Null, from |-> Null]

\* <Navigate to="/auth/login" state={{ from: location }} replace />
RedirectView(location) == [kind |-> "redirect", to |-> LoginPath, from |-> location]

\* <>{children}</>
ChildrenView == [kind |-> "children", to |-> Null, from |-> Null]

ProtectedRouteIgnoresLoading(st, location) ==
  IF ~st.isAuthenticated THEN RedirectView(location) ELSE ChildrenView

\* if (isLoading) spinner; if (!isAuthenticated) Navigate; else children
ProtectedRoute(st, location) ==
  IF st.isLoading THEN LoadingView
  ELSE IF ~st.isAuthenticated THEN RedirectView(location)
  ELSE ChildrenView

InitEffectDepsChangedOnRender(prev, new) == prev # new

\* The mount effect's dependency list is [setAuth], and setAuth comes from
\* useCallback with no dependencies: it is the same function on every render.
InitEffectDepsChanged(prev, new) == FALSE

\* A render after a state update: the route guard renders from the new
\* Session, and the mount effect runs again only if its dependencies changed.
Render(pc) ==
  /\ view' = ProtectedRoute(state', DashboardPath)
  /\ initPc' = IF InitEffectDepsChanged(state, state') THEN "start" ELSE pc

\* ------------------------------------------------------------------------
\* Actions
\* ------------------------------------------------------------------------
Record(op, out, pre, preLs, res) ==
  [op |-> op, out |-> out, ret |-> res.ret, threw |-> res.threw,
   pre |-> pre, preLs |-> preLs, post |-> res.state, postLs |-> res.storage,
   postHref |-> res.href, issue |-> 0]

\* The values the variables of the other specifications rest at.
NoAxiosError == AxiosErrorOf(FALSE, NoStatus, Null, Null, Null)

NoApiError == [message |-> Null, code |-> Null, statusCode |-> NoStatus]

\* No reset call: newTime is undefined.
NoResetArg == [hasArg |-> FALSE, newTime |-> 0]

NormAtRest ==
  /\ normPc = "in"
  /\ errIn = NoAxiosError
  /\ errOut = NoApiError

AuthOthersAtRest ==
  /\ state = InitialState
  /\ href = AppPath
  /\ initPc = "start"
  /\ initToken = Null
  /\ inflight = [login |-> 0, signup |-> 0, logout |-> 0]
  /\ started = 0
  /\ meCalls = 0
  /\ last = [op |-> "none", out |-> NoOutcome, ret |-> FALSE, threw |-> FALSE,
             pre |-> InitialState, preLs |-> EmptyStorage,
             post |-> InitialState, postLs |-> EmptyStorage,
             postHref |-> AppPath, issue |-> 0]
  /\ sentAuth = NoHeader
  /\ view = LoadingView
  /\ pending = {}

AuthAtRest ==
  /\ storage = EmptyStorage
  /\ AuthOthersAtRest

CountdownAtRest ==
  /\ initialTime = 0
  /\ timeLeft = 0
  /\ isRunning = FALSE
  /\ activeIntervals = 0
  /\ completions = 0
  /\ ticks = 0
  /\ resets = 0
  /\ calls = 0
  /\ lastEvent = "none"
  /\ lastArg = NoResetArg
  /\ screen = "none"
  /\ email = FALSE
  /\ isResending = FALSE

\* Storage survives a page load: it holds what an earlier load left there.
\* A refresh token is only ever written after an access token (login), and
\* the two are removed together.
InitialStorages ==
  { ls \in [authToken : Tokens \cup {Null},
            refreshToken : RefreshTokens \cup {Null}] :
      ls.refreshToken = Null \/ ls.authToken # Null }

Init ==
  /\ state = InitialState
  /\ storage \in InitialStorages
  /\ href = AppPath
  /\ initPc = "start"
  /\ initToken = Null
  /\ inflight = [login |-> 0, signup |-> 0, logout |-> 0]
  /\ started = 0
  /\ meCalls = 0
  /\ last = [op |-> "none", out |-> NoOutcome, ret |-> FALSE, threw |-> FALSE,
             pre |-> InitialState, preLs |-> storage, post |-> InitialState,
             postLs |-> storage, postHref |-> AppPath, issue |-> 0]
  /\ sentAuth = NoHeader
  /\ view = LoadingView
  /\ pending = {}
  /\ NormAtRest
  /\ CountdownAtRest

\* The mount effect runs initAuth up to its return or its await.
InitAuthStart ==
  /\ initPc = "start"
  /\ LET token == storage.authToken
     IN IF ~Truthy(token)
          THEN /\ state' = InitNoToken(state)
               /\ initToken' = token
               /\ meCalls' = meCalls
               /\ sentAuth' = sentAuth
               /\ last' = Record("initAuth", NoOutcome, state, storage,
                                 [state |-> InitNoToken(state), storage |-> storage,
                                  href |-> href, ret |-> FALSE, threw |-> FALSE])
          ELSE /\ initToken' = token
               /\ meCalls' = meCalls + 1
               /\ sentAuth' = RequestInterceptor(storage)
               /\ UNCHANGED <<state, last>>
  /\ Render(IF ~Truthy(storage.authToken) THEN "done" ELSE "awaiting")
  /\ UNCHANGED <<storage, href, inflight, started, pending, normVars, cdVars>>

\* GET /auth/me settles and initAuth runs to its end.
InitAuthResume ==
  /\ initPc = "awaiting"
  /\ \E out \in MeOutcomes :
       LET res == InitResult(state, storage, href, initToken, out)
       IN /\ state' = res.state
          /\ storage' = res.storage
          /\ href' = res.href
          /\ last' = Record("initAuth", out, state, storage, res)
  /\ Render("done")
  /\ UNCHANGED <<initToken, inflight, started, meCalls, sentAuth, pending,
                 normVars, cdVars>>

\* A screen calls login: it runs up to the await.
LoginStart ==
  /\ initPc # "start"
  /\ started < MaxCalls
  /\ state' = LoginBegin(state)
  /\ inflight' = [inflight EXCEPT !.login = @ + 1]
  /\ started' = started + 1
  /\ pending' = pending \cup {started + 1}
  /\ sentAuth' = RequestInterceptor(storage)
  /\ Render(initPc)
  /\ UNCHANGED <<storage, href, initToken, meCalls, last, normVars, cdVars>>

\* POST /auth/login settles and login runs to its return.
LoginResume ==
  /\ inflight.login > 0
  /\ \E call \in pending, out \in LoginOutcomes :
       LET res == LoginResult(state, storage, href, out)
       IN /\ state' = res.state
          /\ storage' = res.storage
          /\ href' = res.href
          /\ last' = [Record("login", out, state, storage, res)
                        EXCEPT !.issue = call]
          /\ pending' = pending \ {call}
  /\ inflight' = [inflight EXCEPT !.login = @ - 1]
  /\ Render(initPc)
  /\ UNCHANGED <<initToken, started, meCalls, sentAuth, normVars, cdVars>>

SignupStart ==
  /\ initPc # "start"
  /\ started < MaxCalls
  /\ state' = SignupBegin(state)
  /\ inflight' = [inflight EXCEPT !.signup = @ + 1]
  /\ started' = started + 1
  /\ sentAuth' = RequestInterceptor(storage)
  /\ Render(initPc)
  /\ UNCHANGED <<storage, href, initToken, meCalls, last, pending, normVars,
                 cdVars>>

SignupResume ==
  /\ inflight.signup > 0
  /\ \E out \in SignupOutcomes :
       LET res == SignupResult(state, storage, href, out)
       IN /\ state' = res.state
          /\ storage' = res.storage
          /\ href' = res.href
          /\ last' = Record("signup", out, state, storage, res)
  /\ inflight' = [inflight EXCEPT !.signup = @ - 1]
  /\ Render(initPc)
  /\ UNCHANGED <<initToken, started, meCalls, sentAuth, pending, normVars,
                 cdVars>>

\* logout awaits authApi.logout() first thing.
LogoutStart ==
  /\ initPc # "start"
  /\ started < MaxCalls
  /\ inflight' = [inflight EXCEPT !.logout = @ + 1]
  /\ started' = started + 1
  /\ sentAuth' = RequestInterceptor(storage)
  /\ UNCHANGED <<state, storage, href, initToken, meCalls, last, pending,
                 normVars, cdVars>>
  /\ Render(initPc)

LogoutResume ==
  /\ inflight.logout > 0
  /\ \E out \in LogoutOutcomes :
       LET res == LogoutResult(state, storage, href, out)
       IN /\ state' = res.state
          /\ storage' = res.storage
          /\ href' = res.href
          /\ last' = Record("logout", out, state, storage, res)
  /\ inflight' = [inflight EXCEPT !.logout = @ - 1]
  /\ Render(initPc)
  /\ UNCHANGED <<initToken, started, meCalls, sentAuth, pending, normVars,
                 cdVars>>

\* clearError: setError(null)
ClearError ==
  /\ initPc # "start"
  /\ state' = ClearErrorState(state)
  /\ last' = Record("clearError", NoOutcome, state, storage,
                    [state |-> ClearErrorState(state), storage |-> storage,
                     href |-> href, ret |-> FALSE, threw |-> FALSE])
  /\ Render(initPc)
  /\ UNCHANGED <<storage, href, initToken, inflight, started, meCalls,
                 sentAuth, pending, normVars, cdVars>>

Next ==
  \/ InitAuthStart
  \/ InitAuthResume
  \/ LoginStart
  \/ LoginResume
  \/ SignupStart
  \/ SignupResume
  \/ LogoutStart
  \/ LogoutResume
  \/ ClearError

Spec == Init /\ [][Next]_vars

\* A step that runs the mount effect or the continuation after an await.
Settle ==
  \/ InitAuthStart
  \/ InitAuthResume
  \/ LoginResume
  \/ SignupResume
  \/ LogoutResume

\* The mount effect runs and every remote call settles: while an effect or a
\* continuation is waiting to run, one of them eventually runs.
\* Bound: the number of login, signup and logout calls in a run of SpecLive.
MaxLiveCalls == 1

NextLive ==
  \/ InitAuthStart
  \/ InitAuthResume
  \/ (started < MaxLiveCalls /\ LoginStart)
  \/ LoginResume
  \/ (started < MaxLiveCalls /\ SignupStart)
  \/ SignupResume
  \/ (started < MaxLiveCalls /\ LogoutStart)
  \/ LogoutResume
  \/ ClearError

SpecLive == Init /\ [][NextLive]_vars /\ WF_vars(Settle)

\* ------------------------------------------------------------------------
\* SpecNormalize: the response interceptor's error handler on any axios error
\* ------------------------------------------------------------------------
ErrorStatuses == {400, 401, 403, 404, 500}
ErrorCodes == {"E_AUTH"}
TransportMessages == {"Network Error", "Request failed"}

AxiosErrors ==
  { AxiosErrorOf(TRUE, st, dm, dc, m) :
      st \in ErrorStatuses, dm \in BodyMessages \cup {Null, ""},
      dc \in ErrorCodes \cup {Null}, m \in TransportMessages \cup {""} }
  \cup
  { AxiosErrorOf(FALSE, NoStatus, Null, Null, m) :
      m \in TransportMessages \cup {""} }

\* if (error.response?.status === 40)
InterceptorClearsError(err) ==
  err.hasResponse /\ err.status = InterceptedStatus

InitNormalize ==
  /\ normPc = "in"
  /\ errIn \in AxiosErrors
  /\ errOut = NoApiError
  /\ storage \in InitialStorages
  /\ AuthOthersAtRest
  /\ CountdownAtRest

\* (error) => { const apiError = ...; if (error.response?.status === 40) {
\* remove both tokens; window.location.href = "/auth/login" };
\* return Promise.reject(apiError); }
Normalize ==
  /\ normPc = "in"
  /\ errOut' = NormalizeError(errIn)
  /\ storage' = IF InterceptorClearsError(errIn) THEN EmptyStorage ELSE storage
  /\ href' = IF InterceptorClearsError(errIn) THEN LoginPath ELSE href
  /\ normPc' = "out"
  /\ UNCHANGED <<errIn, state, initPc, initToken, inflight, started, meCalls,
                 last, sentAuth, view, pending, cdVars>>

NextNormalize == Normalize

SpecNormalize == InitNormalize /\ [][NextNormalize]_vars

\* ------------------------------------------------------------------------
\* SpecCountdown: useCountdown (App.tsx:80-142)
\* ------------------------------------------------------------------------
\* Bounds: the small initialTime / reset values, and the number of start,
\* stop and reset calls in a run.
MaxTime == 2
MaxCdCalls == 3

\* initialTime of the OTP-verification screen (VerifyOTPPage.tsx:43).
OtpTime == 300

InitialTimes == (0..MaxTime) \cup {OtpTime}
ResetArgs == 0..MaxTime

\* No more ticks than the calls of a run can make room for.
TickCap == (MaxCdCalls + 1) * OtpTime

IntervalWantedWhenRunning(running, tl) == running

\* if (isRunning && timeLeft > 0) { intervalId = setInterval(...) }
IntervalWanted(running, tl) == running /\ tl > 0

EffectIntervalsNoCleanup(active, pr, pt, nr, nt) ==
  IF pr = nr /\ pt = nt THEN active
  ELSE active + (IF IntervalWanted(nr, nt) THEN 1 ELSE 0)

\* The effect with dependencies [isRunning, timeLeft]: when one of them
\* changed, the cleanup of the previous run clears the timer that run set
\* (if any) and the new run sets one if wanted.  Result: timers not cleared.
EffectIntervals(active, pr, pt, nr, nt) ==
  IF pr = nr /\ pt = nt THEN active
  ELSE (active - (IF IntervalWanted(pr, pt) THEN 1 ELSE 0))
       + (IF IntervalWanted(nr, nt) THEN 1 ELSE 0)

TickCompletesAtZero(prev) == prev <= 0

\* if (prevTime <= 1) { setIsRunning(false); onComplete?.(); return 0; }
TickCompletes(prev) == prev <= 1

\* the updater's return value
TickTime(prev) == IF TickCompletes(prev) THEN 0 ELSE prev - 1

\* One second passes: each timer that is set calls setTimeLeft(updater) once.
\* The result after n timers fired, from timeLeft tl, isRunning run and comp
\* completion callbacks.
RECURSIVE TickResult(_, _, _, _)
TickResult(tl, run, comp, n) ==
  IF n = 0 THEN [timeLeft |-> tl, isRunning |-> run, completions |-> comp]
  ELSE TickResult(TickTime(tl),
                  IF TickCompletes(tl) THEN FALSE ELSE run,
                  IF TickCompletes(tl) THEN comp + 1 ELSE comp,
                  n - 1)

ResetTimeOr(hasArg, newTime, init) ==
  IF hasArg /\ newTime # 0 THEN newTime ELSE init

\* reset: newTime ?? initialTime
ResetTime(hasArg, newTime, init) == IF hasArg THEN newTime ELSE init

StopTimeLeftReset(tl, init) == init

\* stop() calls setIsRunning only: timeLeft is left as it is.
StopTimeLeft(tl, init) == tl

\* useState(initialTime), useState(false); the mount run of the effect sets
\* no timer.
InitCountdown ==
  /\ initialTime \in InitialTimes
  /\ timeLeft = initialTime
  /\ isRunning = FALSE
  /\ activeIntervals = 0
  /\ completions = 0
  /\ ticks = 0
  /\ resets = 0
  /\ calls = 0
  /\ lastEvent = "none"
  /\ lastArg = NoResetArg
  /\ screen = "none"
  /\ email = FALSE
  /\ isResending = FALSE
  /\ AuthAtRest
  /\ NormAtRest

\* start(): setIsRunning(true)
Start ==
  /\ calls < MaxCdCalls
  /\ isRunning' = TRUE
  /\ activeIntervals' =
       EffectIntervals(activeIntervals, isRunning, timeLeft, TRUE, timeLeft)
  /\ calls' = calls + 1
  /\ lastEvent' = "start"
  /\ lastArg' = NoResetArg
  /\ UNCHANGED <<initialTime, timeLeft, completions, ticks, resets,
                 screen, email, isResending, authVars, normVars>>

\* stop(): setIsRunning(false)
Stop ==
  /\ calls < MaxCdCalls
  /\ isRunning' = FALSE
  /\ timeLeft' = StopTimeLeft(timeLeft, initialTime)
  /\ activeIntervals' =
       EffectIntervals(activeIntervals, isRunning, timeLeft, FALSE, timeLeft')
  /\ calls' = calls + 1
  /\ lastEvent' = "stop"
  /\ lastArg' = NoResetArg
  /\ UNCHANGED <<initialTime, completions, ticks, resets,
                 screen, email, isResending, authVars, normVars>>

\* reset(newTime?): setIsRunning(false); setTimeLeft(newTime ?? initialTime)
Reset ==
  /\ calls < MaxCdCalls
  /\ \E hasArg \in BOOLEAN, newTime \in ResetArgs :
       LET t == ResetTime(hasArg, newTime, initialTime)
       IN /\ timeLeft' = t
          /\ activeIntervals' =
               EffectIntervals(activeIntervals, isRunning, timeLeft, FALSE, t)
          /\ lastArg' = IF hasArg THEN [hasArg |-> TRUE, newTime |-> newTime]
                        ELSE NoResetArg
  /\ isRunning' = FALSE
  /\ calls' = calls + 1
  /\ resets' = resets + 1
  /\ lastEvent' = "reset"
  /\ UNCHANGED <<initialTime, completions, ticks, screen, email, isResending,
                 authVars, normVars>>

\* A second passes with a timer set.
Tick ==
  /\ activeIntervals > 0
  /\ ticks < TickCap
  /\ LET r == TickResult(timeLeft, isRunning, completions, activeIntervals)
     IN /\ timeLeft' = r.timeLeft
        /\ isRunning' = r.isRunning
        /\ completions' = r.completions
        /\ activeIntervals' =
             EffectIntervals(activeIntervals, isRunning, timeLeft,
                             r.isRunning, r.timeLeft)
  /\ ticks' = ticks + 1
  /\ lastEvent' = "tick"
  /\ lastArg' = NoResetArg
  /\ UNCHANGED <<initialTime, resets, calls, screen, email, isResending,
                 authVars, normVars>>

NextCountdown ==
  \/ Start
  \/ Stop
  \/ Reset
  \/ Tick

SpecCountdown == InitCountdown /\ [][NextCountdown]_vars

\* ------------------------------------------------------------------------
\* SpecResend: the countdown on the OTP-verification page (VerifyOTPPage.tsx)
\* and on the reset-password page (ResetPasswordPage), with their resend
\* handlers
\* ------------------------------------------------------------------------
Screens == {"verify-otp", "reset-password"}

\* initialTime of the reset-password page.
ResetPasswordTime == 600

\* useCountdown({ initialTime: 300 }) resp. ({ initialTime: 600 })
ScreenInitialTime(scr) ==
  IF scr = "verify-otp" THEN OtpTime ELSE ResetPasswordTime

ResendTimeOtpOnly(scr) == 300

\* reset(300) in handleResendOTP, reset(600) in handleResendCode
ResendTime(scr) == IF scr = "verify-otp" THEN 300 ELSE 600

ResendOfferedAlways(running, tl) == TRUE

\* {isRunning && timeLeft > 0 ? <expiry text> : <Resend Code button>}
ResendOffered(running, tl) == ~(running /\ tl > 0)

\* How a resend request ends: response.success, a response without success,
\* or a rejected request.
ResendOutcomes == {"success", "failure", "throws"}

InitResend ==
  /\ screen \in Screens
  /\ email \in BOOLEAN
  /\ isResending = FALSE
  /\ initialTime = ScreenInitialTime(screen)
  /\ timeLeft = initialTime
  /\ isRunning = FALSE
  /\ activeIntervals = 0
  /\ completions = 0
  /\ ticks = 0
  /\ resets = 0
  /\ calls = 0
  /\ lastEvent = "none"
  /\ lastArg = NoResetArg
  /\ AuthAtRest
  /\ NormAtRest

\* The page's mount effect with an email: start().
Mount ==
  /\ lastEvent = "none"
  /\ email
  /\ Start

\* The page's mount effect without an email: navigate away; the page renders
\* nothing.
MountWithoutEmail ==
  /\ lastEvent = "none"
  /\ ~email
  /\ lastEvent' = "navigate"
  /\ UNCHANGED <<initialTime, timeLeft, isRunning, activeIntervals,
                 completions, ticks, resets, calls, lastArg, screen, email,
                 isResending, authVars, normVars>>

\* A click on Resend Code: the handler runs up to its await.
ResendClick ==
  /\ lastEvent \notin {"none", "navigate"}
  /\ email
  /\ ResendOffered(isRunning, timeLeft)
  /\ ~isResending
  /\ calls + 2 <= MaxCdCalls
  /\ isResending' = TRUE
  /\ lastEvent' = "resend-click"
  /\ UNCHANGED <<initialTime, timeLeft, isRunning, activeIntervals,
                 completions, ticks, resets, calls, lastArg, screen, email,
                 authVars, normVars>>

\* The resend request settles: on success reset(full) and start(), otherwise
\* a toast only; finally setIsResending(false).
ResendSettle ==
  /\ isResending
  /\ \E out \in ResendOutcomes :
       IF out = "success"
         THEN LET v == ResetTime(TRUE, ResendTime(screen), initialTime)
                  a1 == EffectIntervals(activeIntervals, isRunning, timeLeft,
                                        FALSE, timeLeft)
                  a2 == EffectIntervals(a1, FALSE, timeLeft, FALSE, v)
              IN /\ timeLeft' = v
                 /\ isRunning' = TRUE
                 /\ activeIntervals' = EffectIntervals(a2, FALSE, v, TRUE, v)
                 /\ calls' = calls + 2
                 /\ resets' = resets + 1
                 /\ lastArg' = [hasArg |-> TRUE, newTime |-> ResendTime(screen)]
                 /\ lastEvent' = "resend-ok"
         ELSE /\ lastEvent' = IF out = "failure" THEN "resend-failed"
                              ELSE "resend-threw"
              /\ lastArg' = NoResetArg
              /\ UNCHANGED <<timeLeft, isRunning, activeIntervals, calls,
                             resets>>
  /\ isResending' = FALSE
  /\ UNCHANGED <<initialTime, completions, ticks, screen, email, authVars,
                 normVars>>

NextResend ==
  \/ Mount
  \/ MountWithoutEmail
  \/ Tick
  \/ ResendClick
  \/ ResendSettle

SpecResend == InitResend /\ [][NextResend]_vars

\* ------------------------------------------------------------------------
\* Properties
\* ------------------------------------------------------------------------
Present(x) == x # Null

\* The Session with nobody signed in and the startup check resolved.
Anonymous(st) ==
  /\ st.user = Null
  /\ st.token = Null
  /\ st.isAuthenticated = FALSE
  /\ st.isLoading = FALSE
  /\ st.error = Null

\* C1: in every reachable state isAuthenticated is true if and only if both
\* user and token are present.
C1_AuthenticatedIffUserAndToken ==
  state.isAuthenticated <=> (Present(state.user) /\ Present(state.token))

C1_Witness ==
  /\ last.op = "login"
  /\ last.ret
  /\ state.isAuthenticated
  /\ Present(state.user)
  /\ Present(state.token)

\* The login response reports success and carries a user and a token.
SuccessResponse(out) ==
  /\ out.status = StatusOK
  /\ out.success
  /\ out.user \in Users
  /\ out.token \in Tokens

\* C2: when login's response reports success with a user and a token, then
\* at login's return the Session holds that user and token, isAuthenticated
\* is true, error is absent, the persisted authToken is the response token
\* and login returned true.
C2_LoginSuccess ==
  (last.op = "login" /\ SuccessResponse(last.out)) =>
    /\ last.post.user = last.out.user
    /\ last.post.token = last.out.token
    /\ last.post.isAuthenticated
    /\ last.post.error = Null
    /\ last.postLs.authToken = last.out.token
    /\ last.ret
    /\ ~last.threw

C2_Witness ==
  /\ last.op = "login"
  /\ SuccessResponse(last.out)
  /\ last.out.token = "t2"
  /\ last.preLs.authToken = "t1"
  /\ last.postLs.authToken = "t2"
  /\ last.ret

\* C3: after logout returns, authToken and refreshToken are absent and the
\* Session is anonymous (no user, no token, not authenticated, no error, not
\* loading), whether the remote logout call succeeded or threw.
C3_LogoutClears ==
  (last.op = "logout") =>
    /\ last.postLs.authToken = Null
    /\ last.postLs.refreshToken = Null
    /\ Anonymous(last.post)
    /\ ~last.threw

C3_Witness ==
  /\ last.op = "logout"
  /\ Rejected(last.out)
  /\ last.pre.isAuthenticated
  /\ last.preLs.authToken # Null
  /\ last.preLs.refreshToken # Null
  /\ last.postLs = EmptyStorage
  /\ Anonymous(last.post)

\* C4: a response with the unauthorized status, received while a token is
\* stored, leaves both storage keys removed and the location at the login
\* path, whichever operation issued the request.
C4_UnauthorizedClearsAndRedirects ==
  (last.out.status = StatusUnauthorized /\ last.preLs.authToken # Null) =>
    /\ last.postLs.authToken = Null
    /\ last.postLs.refreshToken = Null
    /\ last.postHref = LoginPath

\* C5: an unauthorized response handled while the Session is Authenticated
\* leaves the Session without user and token and not authenticated.
C5_UnauthorizedResetsSession ==
  (last.out.status = StatusUnauthorized /\ last.pre.isAuthenticated) =>
    /\ last.post.user = Null
    /\ last.post.token = Null
    /\ ~last.post.isAuthenticated

\* The message a failed call must leave in error: the message of the
\* response body when the response has one; else, for a rejected request,
\* the transport error's message or the interceptor's generic one; the
\* fallback when a delivered response has no message.
ExpectedError(out, fallback) ==
  IF out.status = StatusOK
    THEN IF out.message \in BodyMessages THEN out.message ELSE fallback
  ELSE IF out.message \in BodyMessages THEN out.message
  ELSE IF out.errmsg \notin {Null, ""} THEN out.errmsg
  ELSE "An error occurred"

\* C6: every login that does not end in success returns false without
\* throwing and sets error to the response's message, else the thrown
\* error's message, else "Login failed"; signup does the same with
\* "Signup failed"; login, signup and logout never throw to their caller.
C6_FailureCaptured ==
  /\ (last.op = "login" /\ ~SuccessResponse(last.out)) =>
       /\ last.ret = FALSE
       /\ last.post.error = ExpectedError(last.out, "Login failed")
  /\ (last.op = "signup"
        /\ ~(last.out.status = StatusOK /\ last.out.success)) =>
       /\ last.ret = FALSE
       /\ last.post.error = ExpectedError(last.out, "Signup failed")
  /\ (last.op \in {"login", "signup", "logout"}) => ~last.threw

C6_Witness ==
  /\ last.op = "login"
  /\ last.out.status = StatusOK
  /\ ~last.out.success
  /\ last.out.message = "Invalid credentials"
  /\ last.post.error = "Invalid credentials"
  /\ last.ret = FALSE

\* C7 as stated: after any login that ends in a non-success outcome, in
\* whatever state the Session was, user and token are absent.
C7_FailedLoginLeavesAbsent ==
  (last.op = "login" /\ ~last.ret) =>
    /\ last.post.user = Null
    /\ last.post.token = Null

\* C7 amended: a login that ends in a non-success outcome leaves user, token
\* and isAuthenticated as they were right before its response was handled
\* (absent when the Session was anonymous, kept when it was authenticated).
C7_FailedLoginKeepsUserAndToken ==
  (last.op = "login" /\ ~last.ret) =>
    /\ last.post.user = last.pre.user
    /\ last.post.token = last.pre.token
    /\ last.post.isAuthenticated = last.pre.isAuthenticated

C7_Witness ==
  /\ last.op = "login"
  /\ ~last.ret
  /\ last.pre.isAuthenticated
  /\ last.post.isAuthenticated
  /\ last.post.user = "u1"
  /\ last.post.error # Null

\* C8: isLoading is true as long as any login or signup call is in flight,
\* also when several calls and the startup rehydration overlap.
C8_LoadingWhileInFlight ==
  (inflight.login + inflight.signup > 0) => state.isLoading

\* C9: right after a login or signup call returns, on the success path, the
\* declared-failure path and the thrown-error path alike, isLoading is false.
C9_LoadingClearedOnExit ==
  (last.op \in {"login", "signup"}) => ~last.post.isLoading

C9_Witness ==
  /\ last.op = "login"
  /\ Throws(last.out)
  /\ last.pre.isLoading
  /\ ~last.post.isLoading

\* C10: startup rehydration that finds no stored access token issues no
\* network call, sets isLoading to false and leaves the Session anonymous.
C10_RehydrateWithoutToken ==
  /\ (initPc = "done" /\ initToken = Null) => meCalls = 0
  /\ (last.op = "initAuth" /\ initToken = Null) =>
       /\ ~last.post.isLoading
       /\ last.post.user = Null
       /\ last.post.token = Null
       /\ ~last.post.isAuthenticated

C10_Witness ==
  /\ last.op = "initAuth"
  /\ initPc = "done"
  /\ initToken = Null
  /\ last.pre.isLoading
  /\ ~last.post.isLoading
  /\ meCalls = 0

\* C11: startup rehydration with a stored token whose current-user fetch
\* fails ends with the Session anonymous, isLoading false and both stored
\* tokens removed.
C11_RehydrateRejected ==
  (last.op = "initAuth" /\ initToken # Null /\ last.out.status # StatusOK) =>
    /\ Anonymous(last.post)
    /\ last.postLs.authToken = Null
    /\ last.postLs.refreshToken = Null

C11_Witness ==
  /\ last.op = "initAuth"
  /\ initToken = "t1"
  /\ last.out.status = StatusServerError
  /\ last.preLs.authToken = "t1"
  /\ last.preLs.refreshToken = "r1"
  /\ last.postLs = EmptyStorage
  /\ Anonymous(last.post)

\* C12: startup rehydration with a stored token whose current-user fetch
\* succeeds ends with user the fetched user, token the stored token,
\* isAuthenticated true and isLoading false.
C12_RehydrateAccepted ==
  (last.op = "initAuth" /\ initToken # Null /\ last.out.status = StatusOK) =>
    /\ last.post.user = last.out.user
    /\ last.post.user \in Users
    /\ last.post.token = initToken
    /\ last.post.isAuthenticated
    /\ ~last.post.isLoading

C12_Witness ==
  /\ last.op = "initAuth"
  /\ initToken = "t2"
  /\ last.out.status = StatusOK
  /\ last.post.user = "u1"
  /\ last.post.token = "t2"
  /\ last.post.isAuthenticated

\* C13: no step of a signup call (its start or its return, whatever the
\* outcome) changes user, token, isAuthenticated or the persisted tokens.
C13_SignupFrame ==
  [][(inflight'.signup # inflight.signup) =>
       /\ state'.user = state.user
       /\ state'.token = state.token
       /\ state'.isAuthenticated = state.isAuthenticated
       /\ storage' = storage]_vars

C13_Witness ==
  /\ last.op = "signup"
  /\ last.ret
  /\ last.pre.isAuthenticated
  /\ last.post.isAuthenticated
  /\ last.post.user = "u1"
  /\ last.postLs.authToken # Null

\* C14: clearError() sets error to absent and leaves user, token,
\* isAuthenticated, isLoading and both persisted tokens unchanged.
C14_ClearErrorFrame ==
  (last.op = "clearError") =>
    /\ last.post.error = Null
    /\ last.post.user = last.pre.user
    /\ last.post.token = last.pre.token
    /\ last.post.isAuthenticated = last.pre.isAuthenticated
    /\ last.post.isLoading = last.pre.isLoading
    /\ last.postLs = last.preLs

C14_Witness ==
  /\ last.op = "clearError"
  /\ last.pre.error = "Invalid credentials"
  /\ last.pre.isAuthenticated
  /\ last.post.error = Null
  /\ last.post.isAuthenticated
  /\ last.postLs.authToken # Null

\* C15: every request sent carries "Bearer <token>" for the access token
\* persisted at the moment it is sent, and no Authorization header when none
\* is persisted.
C15_RequestCarriesBearer ==
  [][(started' # started \/ meCalls' # meCalls) =>
       sentAuth' = (IF storage.authToken \in Tokens
                      THEN "Bearer " \o storage.authToken
                      ELSE NoHeader)]_vars

C15_Witness ==
  /\ inflight.login = 1
  /\ started = 2
  /\ storage.authToken = "t2"
  /\ sentAuth = "Bearer t2"

\* C17: after a successful login both persisted tokens are those of that
\* login response; after logout both are absent.
C17_TokensWrittenTogether ==
  /\ (last.op = "login" /\ last.ret) =>
       /\ last.postLs.authToken = last.out.token
       /\ last.postLs.refreshToken = last.out.refreshToken
  /\ (last.op = "logout") =>
       /\ last.postLs.authToken = Null
       /\ last.postLs.refreshToken = Null

\* C16: every failed response is normalized to {message, code, statusCode}:
\* message is the response body's message if present, otherwise the
\* transport error's message if present, otherwise "An error occurred";
\* statusCode is the response status and code the body's code.
C16_ErrorNormalized ==
  (normPc = "out") =>
    /\ errOut.message =
         (IF errIn.hasResponse /\ errIn.dataMessage \in BodyMessages
            THEN errIn.dataMessage
          ELSE IF errIn.message \in TransportMessages THEN errIn.message
          ELSE "An error occurred")
    /\ errOut.statusCode = errIn.status
    /\ errOut.code = errIn.dataCode

C16_Witness ==
  /\ normPc = "out"
  /\ errIn.hasResponse
  /\ errIn.status = 404
  /\ errIn.dataMessage = "Invalid credentials"
  /\ errIn.message = "Request failed"
  /\ errIn.dataCode = "E_AUTH"
  /\ errOut.message = "Invalid credentials"
  /\ errOut.code = "E_AUTH"

\* C18: the completion callback fires once each time a tick takes timeLeft
\* from a positive value to zero, then timeLeft is 0 and isRunning false, and
\* it fires on no other event; from initialTime 300, the 300th tick leaves
\* timeLeft 0, isRunning false and exactly one callback fired.
C18_CompletesOncePerRun ==
  [][/\ completions' =
          completions + (IF lastEvent' = "tick" /\ timeLeft > 0 /\ timeLeft' = 0
                           THEN 1 ELSE 0)
     /\ (lastEvent' = "tick" /\ timeLeft > 0 /\ timeLeft' = 0) => ~isRunning'
     /\ (lastEvent' = "tick" /\ initialTime = OtpTime /\ resets = 0
           /\ ticks' = OtpTime) =>
          (timeLeft' = 0 /\ ~isRunning' /\ completions' = 1)]_vars

C18_Witness ==
  /\ initialTime = OtpTime
  /\ resets = 0
  /\ ticks = OtpTime
  /\ lastEvent = "tick"
  /\ timeLeft = 0
  /\ ~isRunning
  /\ completions = 1

\* C19: start() while the countdown is already running changes nothing; at
\* most one timer is set at any time and each tick decrements timeLeft by
\* exactly one.
C19_StartIdempotent ==
  /\ [](activeIntervals <= 1)
  /\ [][/\ (lastEvent' = "start" /\ isRunning) =>
             (/\ timeLeft' = timeLeft
              /\ isRunning' = isRunning
              /\ activeIntervals' = activeIntervals
              /\ completions' = completions)
        /\ (lastEvent' = "tick") => timeLeft' = timeLeft - 1]_vars

\* start, one tick, then start again while still running.
C19_Witness ==
  /\ lastEvent = "start"
  /\ calls = 2
  /\ resets = 0
  /\ ticks = 1
  /\ isRunning
  /\ initialTime = 2
  /\ timeLeft = 1
  /\ activeIntervals = 1

\* C20: timeLeft is never negative, and once timeLeft is 0 no event other
\* than reset changes it or fires the completion callback (start() after
\* completion included).
C20_NeverNegative ==
  /\ [](timeLeft >= 0)
  /\ [][(timeLeft = 0 /\ lastEvent' # "reset") =>
          (timeLeft' = 0 /\ completions' = completions)]_vars

C20_Witness ==
  /\ lastEvent = "start"
  /\ completions = 1
  /\ timeLeft = 0
  /\ isRunning
  /\ activeIntervals = 0

\* C21: stop() sets isRunning to false, leaves timeLeft unchanged and fires no
\* completion callback; while the countdown is not running no timer is set
\* and nothing but reset changes timeLeft; start() after stop() runs again
\* from the same timeLeft, and the next tick takes one off it.
C21_StopHalts ==
  /\ [](~isRunning => activeIntervals = 0)
  /\ [][/\ (lastEvent' = "stop" /\ calls' # calls) =>
             (/\ ~isRunning'
              /\ timeLeft' = timeLeft
              /\ completions' = completions)
        /\ (~isRunning /\ lastEvent' # "reset") =>
             (timeLeft' = timeLeft /\ completions' = completions)
        /\ (lastEvent = "stop" /\ lastEvent' = "start") =>
             (/\ isRunning'
              /\ timeLeft' = timeLeft
              /\ activeIntervals' = (IF timeLeft > 0 THEN 1 ELSE 0))]_vars

\* start, one tick, then stop.
C21_Witness ==
  /\ lastEvent = "stop"
  /\ calls = 2
  /\ resets = 0
  /\ ticks = 1
  /\ initialTime = 2
  /\ timeLeft = 1
  /\ ~isRunning
  /\ activeIntervals = 0
  /\ completions = 0

\* C22: after reset(v) the countdown is stopped with timeLeft v, after reset()
\* it is stopped with timeLeft initialTime, whatever the state before;
\* start() after a reset gives a running countdown at the same timeLeft whose
\* first tick takes one off it.
C22_ResetSetsTime ==
  /\ [](lastEvent = "reset" =>
          (/\ ~isRunning
           /\ activeIntervals = 0
           /\ timeLeft = (IF lastArg.hasArg THEN lastArg.newTime
                          ELSE initialTime)))
  /\ [][/\ (lastEvent = "reset" /\ lastEvent' = "start") =>
             (/\ isRunning'
              /\ timeLeft' = timeLeft
              /\ activeIntervals' = (IF timeLeft > 0 THEN 1 ELSE 0))
        /\ (lastEvent = "start" /\ lastEvent' = "tick") =>
             timeLeft' = timeLeft - 1]_vars

\* start, one tick, then reset(0) on the OTP screen's countdown.
C22_Witness ==
  /\ lastEvent = "reset"
  /\ lastArg.hasArg
  /\ lastArg.newTime = 0
  /\ calls = 2
  /\ ticks = 1
  /\ initialTime = OtpTime
  /\ timeLeft = 0
  /\ ~isRunning

\* C23: what the route guard renders follows from isLoading and
\* isAuthenticated alone: the loading indication while isLoading; a redirect
\* to /auth/login carrying the requested location when neither flag is set;
\* the protected content when isAuthenticated and not isLoading.  The
\* protected content is rendered only for an authenticated Session.
C23_GuardFollowsFlags ==
  /\ state.isLoading =>
       view = [kind |-> "loading", to |-> Null, from |-> Null]
  /\ (~state.isLoading /\ ~state.isAuthenticated) =>
       view = [kind |-> "redirect", to |-> "/auth/login", from |-> "/dashboard"]
  /\ (~state.isLoading /\ state.isAuthenticated) => view.kind = "children"
  /\ view.kind = "children" =>
       (state.isAuthenticated /\ Present(state.user) /\ Present(state.token))

\* A logout took the guard from the protected content to the redirect.
C23_Witness ==
  /\ last.op = "logout"
  /\ last.pre.isAuthenticated
  /\ ~last.pre.isLoading
  /\ state = last.post
  /\ view.kind = "redirect"
  /\ view.to = "/auth/login"
  /\ view.from = "/dashboard"

\* C24: for as long as the startup rehydration has not resolved, the route
\* guard renders the loading indication (no redirect, no protected content),
\* whatever login or signup calls started and finished in the meantime.
C24_LoadingWhileUnknown ==
  initPc # "done" => view.kind = "loading"

\* C25: an authenticated Session becomes unauthenticated only by logout or by
\* an unauthorized response; a failed login, a signup, clearError and the
\* completion of the startup rehydration never do that.
C25_OnlyLogoutOrUnauthorized ==
  (last.pre.isAuthenticated /\ ~last.post.isAuthenticated) =>
    (last.op = "logout" \/ last.out.status = StatusUnauthorized)

\* C26: a login that does not succeed, handled with nobody signed in, leaves
\* user and token absent, isAuthenticated false and both persisted tokens as
\* they were, returns false and leaves isLoading false.
C26_FailedLoginFromAnonymous ==
  (/\ last.op = "login"
   /\ ~SuccessResponse(last.out)
   /\ last.pre.user = Null
   /\ last.pre.token = Null
   /\ ~last.pre.isAuthenticated) =>
    (/\ last.post.user = Null
     /\ last.post.token = Null
     /\ ~last.post.isAuthenticated
     /\ last.postLs = last.preLs
     /\ ~last.post.isLoading
     /\ ~last.ret)

C26_Witness ==
  /\ last.op = "login"
  /\ last.out.status = StatusUnauthorized
  /\ last.pre.user = Null
  /\ last.pre.token = Null
  /\ last.preLs = EmptyStorage
  /\ last.postLs = EmptyStorage
  /\ last.post.error = "Invalid credentials"
  /\ ~last.post.isLoading

\* C27: after a successful login response is handled, the Session's user and
\* token and the persisted access token are those of that response, whatever
\* the call's issue number: the response that arrived last wins, also when
\* its call was issued before one that has already resolved.
C27_LastResponseWins ==
  (last.op = "login" /\ SuccessResponse(last.out)) =>
    (/\ state.user = last.out.user
     /\ state.token = last.out.token
     /\ state.isAuthenticated
     /\ storage.authToken = last.out.token)

\* Two logins with nobody signed in at startup: call 2 was answered first
\* with t2, then call 1 with t1.
C27_Witness ==
  /\ last.op = "login"
  /\ last.issue = 1
  /\ started = 2
  /\ pending = {}
  /\ initPc = "done"
  /\ initToken = Null
  /\ last.pre.isAuthenticated
  /\ last.pre.token = "t2"
  /\ last.preLs.authToken = "t2"
  /\ SuccessResponse(last.out)
  /\ last.out.token = "t1"
  /\ state.token = "t1"
  /\ storage.authToken = "t1"

\* C28: the startup rehydration runs once: at most one GET /auth/me is ever
\* issued, and initAuth stands at its start only before any other operation
\* has started or completed.
C28_RehydrateOnce ==
  /\ meCalls <= 1
  /\ initPc = "start" =>
       (started = 0 /\ meCalls = 0 /\ last.op = "none")

\* Rehydration with a stored token, then a login and a logout: still one
\* fetch, and initAuth is done.
C28_Witness ==
  /\ initPc = "done"
  /\ meCalls = 1
  /\ started = 2
  /\ last.op = "logout"
  /\ last.pre.isAuthenticated
  /\ inflight = [login |-> 0, signup |-> 0, logout |-> 0]

\* C29 as stated: a login or signup that receives an unauthorized response
\* does not record it in error, and the stored tokens are removed and the
\* location is the login page.
C29_UnauthorizedNotSurfaced ==
  (last.op \in {"login", "signup"} /\ last.out.status = StatusUnauthorized) =>
    (/\ last.post.error = last.pre.error
     /\ last.postLs = EmptyStorage
     /\ last.postHref = LoginPath)

\* C29, amended: an unauthorized response is delivered to the caller as a
\* rejected, normalized error like any other failure: login and signup
\* return false and set error to its message (the body's message, else the
\* transport message).
C29_UnauthorizedSurfaced ==
  (last.op \in {"login", "signup"} /\ last.out.status = StatusUnauthorized) =>
    (/\ ~last.ret
     /\ ~last.threw
     /\ last.post.error =
          (IF last.out.message \in BodyMessages THEN last.out.message
           ELSE "Request failed with status code 401"))

C29_Witness ==
  /\ last.op = "signup"
  /\ last.out.status = StatusUnauthorized
  /\ last.out.message = Null
  /\ last.post.error = "Request failed with status code 401"
  /\ ~last.ret

\* C30: whenever a refresh token is persisted an access token is persisted
\* with it: none is written before an access token, and the two are removed
\* together.
C30_RefreshImpliesAccess ==
  storage.refreshToken # Null => storage.authToken # Null

\* A login wrote both tokens into empty storage.
C30_Witness ==
  /\ last.op = "login"
  /\ last.preLs = EmptyStorage
  /\ last.out.refreshToken = "r1"
  /\ storage.authToken = last.out.token
  /\ storage.refreshToken = "r1"

\* C31: after logout has returned and before any new login or signup has
\* started (isLoading is still false), a login response or the rehydration's
\* response that is handled next leaves the Session unauthenticated and both
\* persisted tokens absent.
C31_LogoutFinal ==
  [][(/\ last.op = "logout"
      /\ ~state.isLoading
      /\ last'.op \in {"login", "initAuth"}) =>
       (~state'.isAuthenticated /\ storage' = EmptyStorage)]_vars

\* C32: when the rehydration has resolved and no login, signup or logout is
\* in flight, an authenticated Session has its token persisted as authToken,
\* and with an unauthenticated Session both persisted tokens are absent.
C32_SessionAgreesWithStorage ==
  (initPc = "done" /\ inflight = [login |-> 0, signup |-> 0, logout |-> 0]) =>
    (/\ state.isAuthenticated => storage.authToken = state.token
     /\ ~state.isAuthenticated => storage = EmptyStorage)

\* Quiescent after a login that replaced the rehydrated token, and quiescent
\* after a logout whose request was rejected.
C32_Witness ==
  /\ initPc = "done"
  /\ inflight = [login |-> 0, signup |-> 0, logout |-> 0]
  /\ last.op = "logout"
  /\ Rejected(last.out)
  /\ last.preLs.authToken = "t2"
  /\ last.preLs.refreshToken = "r1"
  /\ initToken = "t1"
  /\ ~state.isAuthenticated
  /\ storage = EmptyStorage

\* C33: when every remote call settles, the startup rehydration eventually
\* resolves, and from some point on isLoading is false for good.
C33_EventuallySettled ==
  /\ <>(initPc = "done")
  /\ <>[](~state.isLoading)

\* Rehydration with a stored token and a failed login, both settled.
C33_Witness ==
  /\ initPc = "done"
  /\ meCalls = 1
  /\ started = 1
  /\ inflight = [login |-> 0, signup |-> 0, logout |-> 0]
  /\ last.op = "login"
  /\ ~last.ret
  /\ ~state.isLoading

\* C34: whenever isRunning is true, timeLeft is positive.
C34_RunningImpliesTimeLeft ==
  isRunning => timeLeft > 0

\* C35: a resend is started only while the countdown is not running with
\* time left; while it is awaited timeLeft and isRunning do not change; when
\* it succeeds the countdown is running from the page's full duration (300 on
\* the OTP page, 600 on the reset-password page) with one timer set; when it
\* fails or throws timeLeft and isRunning stay as they are.
C35_ResendGatedAndRestarts ==
  [][/\ (~isResending /\ isResending') => ~(isRunning /\ timeLeft > 0)
     /\ (isResending /\ isResending') =>
          (timeLeft' = timeLeft /\ isRunning' = isRunning)
     /\ (isResending /\ ~isResending' /\ lastEvent' = "resend-ok") =>
          (/\ timeLeft' = (IF screen = "verify-otp" THEN 300 ELSE 600)
           /\ isRunning'
           /\ activeIntervals' = 1)
     /\ (isResending /\ ~isResending' /\ lastEvent' # "resend-ok") =>
          (/\ timeLeft' = timeLeft
           /\ isRunning' = isRunning
           /\ activeIntervals' = activeIntervals)]_vars

\* The reset-password page: the code expired after 600 ticks, the resend
\* succeeded.
C35_Witness ==
  /\ screen = "reset-password"
  /\ lastEvent = "resend-ok"
  /\ ticks = 600
  /\ completions = 1
  /\ timeLeft = 600
  /\ isRunning
  /\ activeIntervals = 1
  /\ ~isResending

====
